---- MODULE Spec2Model ----
(***************************************************************************)
(* Model of the minesweeper board of src/main.rs: the Field (cells and     *)
(* precomputed neighbour numbers) and its operations open, flag, chord     *)
(* and is_won.  Coordinates are 0-based as in the source; cells[x][y] is   *)
(* column x, row y of the Vec<Vec<Cell>>.                                  *)
(***************************************************************************)
EXTENDS Integers, FiniteSets, Sequences, TLC

\* ----------------------------------------------------------------- bounds
\* Largest number of mines on a board.
MaxMines == 2
\* Largest number of calls made on one board.
MaxOps == 2
\* Number of calls made on a board of BoardsInit.
BoardOps == 1
\* Largest width and height given to the generator, besides WideInputs.
GenMaxSide == 8
\* The deepest chain of nested Field::open calls the stack is taken to hold.
\* A chain of calls that each opened a cell, plus the call that returns at
\* once, is at most one deeper than the board has cells (at most 9 here), so
\* only unbounded recursion exceeds it.
StackLimit == 10

VARIABLES cells, numbers, last, left

vars == <<cells, numbers, last, left>>

\* ------------------------------------------------------------ data types
Mine == "Mine"
Water == "Water"

\* Cell::mine() and Cell::water()
Cell_mine == [value |-> Mine, opened |-> FALSE, flagged |-> FALSE]
Cell_water == [value |-> Water, opened |-> FALSE, flagged |-> FALSE]

\* Results: Ok(()) and the MinesError variants the operations return.
Ok == <<"Ok">>
MineOpened == <<"MineOpened">>
OutOfBounds(x, y) == <<"OutOfBounds", x, y>>
FieldTooSmall(w, h) == <<"FieldTooSmall", w, h>>
TooManyMines == <<"TooManyMines">>
\* Unbounded recursion exhausts the thread's stack and aborts the process.
StackOverflow == <<"StackOverflow">>

\* ------------------------------------------------------------ primitives
min_coord(c) == IF c > 0 THEN c - 1 ELSE c

\* get_2d succeeds exactly when both indices are inside the vectors.
get_2d_ok(vec, x, y) == x \in DOMAIN vec /\ y \in DOMAIN vec[x]

\* The scan `for a in min_coord(x)..x+2 { for b in min_coord(y)..y+2 {..} }`:
\* the number of positions it visits and the i-th of them, in iteration order.
ScanLen(x, y) == ((x + 2) - min_coord(x)) * ((y + 2) - min_coord(y))

ScanAt(x, y, i) ==
    LET ny == (y + 2) - min_coord(y)
    IN  <<min_coord(x) + ((i - 1) \div ny), min_coord(y) + ((i - 1) % ny)>>

\* do_with_neighbours: the positions the callback is called on, in order:
\* the scan without (x,y) itself and without positions get_2d rejects.
\* The scan that forgets to leave out (x,y) itself.
RECURSIVE do_with_neighbours_from_self(_, _, _, _)
do_with_neighbours_from_self(cs, x, y, i) ==
    IF i > ScanLen(x, y) THEN <<>>
    ELSE LET p == ScanAt(x, y, i)
             rest == do_with_neighbours_from_self(cs, x, y, i + 1)
         IN  IF get_2d_ok(cs, p[1], p[2]) THEN <<p>> \o rest
             ELSE rest

RECURSIVE do_with_neighbours_from(_, _, _, _)
do_with_neighbours_from(cs, x, y, i) ==
    IF i > ScanLen(x, y) THEN <<>>
    ELSE LET p == ScanAt(x, y, i)
             rest == do_with_neighbours_from(cs, x, y, i + 1)
         IN  IF p[1] = x /\ p[2] = y THEN rest
             ELSE IF get_2d_ok(cs, p[1], p[2]) THEN <<p>> \o rest
             ELSE rest

do_with_neighbours(cs, x, y) == do_with_neighbours_from(cs, x, y, 1)

\* The counter the callback of count_neighbours leaves after its calls on the
\* positions ps: one more for each mine (a u8; at most 8 positions are
\* visited, so it never wraps).
CountMines(cs, ps) ==
    Cardinality({i \in 1..Len(ps) : cs[ps[i][1]][ps[i][2]].value = Mine})

\* The counter the callback of Field::chord leaves: one more for each flagged
\* cell.
CountFlagged(cs, ps) ==
    Cardinality({i \in 1..Len(ps) : cs[ps[i][1]][ps[i][2]].flagged})

\* count_neighbours; never an error for an in-bounds cell of a non-empty grid.
count_neighbours(cs, x, y) ==
    CountMines(cs, do_with_neighbours(cs, x, y))

\* Field::with_cells: the numbers grid.
with_cells(cs) ==
    [x \in DOMAIN cs |-> [y \in DOMAIN cs[x] |-> count_neighbours(cs, x, y)]]

\* ----------------------------------------------------------------- Cell
\* Cell::open that does not look at the flag.
Cell_open_any(c) ==
    [cell |-> [c EXCEPT !.opened = TRUE],
     res |-> IF c.value = Mine THEN MineOpened ELSE Ok]

\* Cell::open: the cell afterwards and the result.
Cell_open(c) ==
    IF ~c.flagged
    THEN [cell |-> [c EXCEPT !.opened = TRUE],
          res |-> IF c.value = Mine THEN MineOpened ELSE Ok]
    ELSE [cell |-> c, res |-> Ok]

\* Cell::toggle_flag that sets the flag instead of flipping it.
Cell_toggle_flag_set(c) ==
    IF ~c.opened THEN [c EXCEPT !.flagged = TRUE] ELSE c

\* Cell::toggle_flag that does not look at opened.
Cell_toggle_flag_always(c) ==
    [c EXCEPT !.flagged = ~c.flagged]

\* Cell::toggle_flag that flips opened instead of flagged.
Cell_toggle_flag_opened(c) ==
    IF ~c.flagged THEN [c EXCEPT !.opened = ~c.opened] ELSE c

\* Cell::toggle_flag
Cell_toggle_flag(c) ==
    IF ~c.opened THEN [c EXCEPT !.flagged = ~c.flagged] ELSE c

\* ---------------------------------------------------------------- Field
\* Field::open at nesting depth d: the cells afterwards and the result.
\* The results of the nested calls are discarded (`let _ =`); running out
\* of stack aborts everything.
RECURSIVE Field_open(_, _, _, _, _), Field_open_loop(_, _, _, _, _, _)

\* Field::open that goes on to the neighbours whatever Cell::open returned.
Field_open_unchecked(cs, nums, x, y, d) ==
    IF d > StackLimit THEN [cells |-> cs, res |-> StackOverflow]
    ELSE IF ~get_2d_ok(cs, x, y) THEN [cells |-> cs, res |-> OutOfBounds(x, y)]
    ELSE IF cs[x][y].opened THEN [cells |-> cs, res |-> Ok]
    ELSE LET r == Cell_open(cs[x][y])
             cs1 == [cs EXCEPT ![x][y] = r.cell]
         IN  IF nums[x][y] = 0
             THEN [cells |-> Field_open_loop(cs1, nums, x, y, 1, d).cells,
                   res |-> r.res]
             ELSE [cells |-> cs1, res |-> r.res]

\* Field::open without the early return for a cell that is opened already.
Field_open_again(cs, nums, x, y, d) ==
    IF d > StackLimit THEN [cells |-> cs, res |-> StackOverflow]
    ELSE IF ~get_2d_ok(cs, x, y) THEN [cells |-> cs, res |-> OutOfBounds(x, y)]
    ELSE LET r == Cell_open(cs[x][y])
             cs1 == [cs EXCEPT ![x][y] = r.cell]
         IN  IF r.res # Ok THEN [cells |-> cs1, res |-> r.res]
             ELSE IF nums[x][y] = 0 /\ ~cs[x][y].opened
             THEN Field_open_loop(cs1, nums, x, y, 1, d)
             ELSE [cells |-> cs1, res |-> Ok]

\* Field::open that discards what Cell::open returned.
Field_open_silent(cs, nums, x, y, d) ==
    IF d > StackLimit THEN [cells |-> cs, res |-> StackOverflow]
    ELSE IF ~get_2d_ok(cs, x, y) THEN [cells |-> cs, res |-> OutOfBounds(x, y)]
    ELSE IF cs[x][y].opened THEN [cells |-> cs, res |-> Ok]
    ELSE LET r == Cell_open(cs[x][y])
             cs1 == [cs EXCEPT ![x][y] = r.cell]
         IN  IF r.res # Ok THEN [cells |-> cs1, res |-> Ok]
             ELSE IF nums[x][y] = 0 THEN Field_open_loop(cs1, nums, x, y, 1, d)
             ELSE [cells |-> cs1, res |-> Ok]

Field_open(cs, nums, x, y, d) ==
    IF d > StackLimit THEN [cells |-> cs, res |-> StackOverflow]
    ELSE IF ~get_2d_ok(cs, x, y) THEN [cells |-> cs, res |-> OutOfBounds(x, y)]
    ELSE IF cs[x][y].opened THEN [cells |-> cs, res |-> Ok]
    ELSE LET r == Cell_open(cs[x][y])
             cs1 == [cs EXCEPT ![x][y] = r.cell]
         IN  IF r.res # Ok THEN [cells |-> cs1, res |-> r.res]
             ELSE IF nums[x][y] = 0 THEN Field_open_loop(cs1, nums, x, y, 1, d)
             ELSE [cells |-> cs1, res |-> Ok]

\* The cascade that opens the neighbours of the first cell only.
RECURSIVE Field_open_loop_flat(_, _, _, _, _, _)
Field_open_loop_flat(cs, nums, x, y, i, d) ==
    IF d > 1 \/ i > ScanLen(x, y) THEN [cells |-> cs, res |-> Ok]
    ELSE LET p == ScanAt(x, y, i)
             r == Field_open(cs, nums, p[1], p[2], d + 1)
         IN  IF r.res = StackOverflow THEN r
             ELSE Field_open_loop_flat(r.cells, nums, x, y, i + 1, d)

Field_open_loop(cs, nums, x, y, i, d) ==
    IF i > ScanLen(x, y) THEN [cells |-> cs, res |-> Ok]
    ELSE LET p == ScanAt(x, y, i)
             r == Field_open(cs, nums, p[1], p[2], d + 1)
         IN  IF r.res = StackOverflow THEN r
             ELSE Field_open_loop(r.cells, nums, x, y, i + 1, d)

\* Field::flag that reports the coordinates the wrong way round.
Field_flag_swapped(cs, x, y) ==
    IF ~get_2d_ok(cs, x, y) THEN [cells |-> cs, res |-> OutOfBounds(y, x)]
    ELSE [cells |-> [cs EXCEPT ![x][y] = Cell_toggle_flag(cs[x][y])], res |-> Ok]

\* Field::flag
Field_flag(cs, x, y) ==
    IF ~get_2d_ok(cs, x, y) THEN [cells |-> cs, res |-> OutOfBounds(x, y)]
    ELSE [cells |-> [cs EXCEPT ![x][y] = Cell_toggle_flag(cs[x][y])], res |-> Ok]

\* The loop of Field::chord over the scan of (x,y), from its i-th position.
RECURSIVE Field_chord_loop(_, _, _, _, _)
Field_chord_loop(cs, nums, x, y, i) ==
    IF i > ScanLen(x, y) THEN [cells |-> cs, res |-> Ok]
    ELSE LET p == ScanAt(x, y, i)
         IN  IF ~get_2d_ok(cs, p[1], p[2])
             THEN [cells |-> cs, res |-> OutOfBounds(p[1], p[2])]
             ELSE IF cs[p[1]][p[2]].opened \/ cs[p[1]][p[2]].flagged
             THEN Field_chord_loop(cs, nums, x, y, i + 1)
             ELSE LET r == Field_open(cs, nums, p[1], p[2], 1)
                  IN  IF r.res # Ok THEN r
                      ELSE Field_chord_loop(r.cells, nums, x, y, i + 1)

\* Field::chord without the early return for a target that is not opened.
Field_chord_concealed(cs, nums, x, y) ==
    IF ~get_2d_ok(cs, x, y) THEN [cells |-> cs, res |-> OutOfBounds(x, y)]
    ELSE IF ~get_2d_ok(nums, x, y) THEN [cells |-> cs, res |-> OutOfBounds(x, y)]
    ELSE LET counter == CountFlagged(cs, do_with_neighbours(cs, x, y))
         IN  IF nums[x][y] # counter THEN [cells |-> cs, res |-> Ok]
             ELSE LET r == Field_open(cs, nums, x, y, 1)
                  IN  IF r.res # Ok THEN r
                      ELSE Field_chord_loop(r.cells, nums, x, y, 1)

\* Field::chord
Field_chord(cs, nums, x, y) ==
    IF ~get_2d_ok(cs, x, y) THEN [cells |-> cs, res |-> OutOfBounds(x, y)]
    ELSE IF ~cs[x][y].opened THEN [cells |-> cs, res |-> Ok]
    ELSE IF ~get_2d_ok(nums, x, y) THEN [cells |-> cs, res |-> OutOfBounds(x, y)]
    ELSE LET counter == CountFlagged(cs, do_with_neighbours(cs, x, y))
         IN  IF nums[x][y] # counter THEN [cells |-> cs, res |-> Ok]
             ELSE LET r == Field_open(cs, nums, x, y, 1)
                  IN  IF r.res # Ok THEN r
                      ELSE Field_chord_loop(r.cells, nums, x, y, 1)

\* is_won that asks for every cell, mines too, to be opened.
RECURSIVE is_won_from_all(_, _, _)
is_won_from_all(cs, x, y) ==
    IF x \notin DOMAIN cs THEN TRUE
    ELSE IF y \notin DOMAIN cs[x] THEN is_won_from_all(cs, x + 1, 0)
    ELSE IF ~cs[x][y].opened THEN FALSE
    ELSE is_won_from_all(cs, x, y + 1)

\* Field::is_won: scan the columns and their cells in order, false at the
\* first Water cell that is not opened.
RECURSIVE is_won_from(_, _, _)
is_won_from(cs, x, y) ==
    IF x \notin DOMAIN cs THEN TRUE
    ELSE IF y \notin DOMAIN cs[x] THEN is_won_from(cs, x + 1, 0)
    ELSE IF cs[x][y].value = Water /\ ~cs[x][y].opened THEN FALSE
    ELSE is_won_from(cs, x, y + 1)

is_won(cs) == is_won_from(cs, 0, 0)

\* A bool as a result value.
BoolRes(b) == IF b THEN <<"true">> ELSE <<"false">>

\* ------------------------------------------------------------ the boards
\* A rectangular grid of w columns of h cells with mines at the positions ms.
cells_from_types(w, h, ms) ==
    [x \in 0..(w - 1) |-> [y \in 0..(h - 1) |->
        IF <<x, y>> \in ms THEN Cell_mine ELSE Cell_water]]

\* The shapes of the boards: every width and height from 1 to 3.  The 3 by 3
\* board (the shape of tests::field::with_cells) is the smallest that has
\* corner, edge and interior cells.  The shapes are fixed; the mines and the
\* calls are what the bounds above vary.
Shapes == (1..3) \X (1..3)

Width(cs) == Cardinality(DOMAIN cs)
Height(cs) == Cardinality(DOMAIN cs[0])
Positions(cs) == (0..(Width(cs) - 1)) \X (0..(Height(cs) - 1))

\* ------------------------------------------------------------ the system
\* The caller is between two calls: no call has returned a result that is
\* still to be looked at.
NoCall == [op |-> "none"]

\* A freshly constructed board of one of the shapes with at most m mines, and
\* a caller that makes n calls on it.
NewField(m, n) ==
    \E s \in Shapes :
        \E ms \in SUBSET ((0..(s[1] - 1)) \X (0..(s[2] - 1))) :
            /\ Cardinality(ms) <= m
            /\ cells = cells_from_types(s[1], s[2], ms)
            /\ numbers = with_cells(cells)
            /\ last = NoCall
            /\ left = n

Init == NewField(MaxMines, MaxOps)

\* The same boards, one more call.
LongInit == NewField(MaxMines, MaxOps + 1)

\* Boards with any number of mines.
BoardsInit == NewField(3 * 3, BoardOps)

\* The caller may make its next call.
Ready == last = NoCall /\ left > 0

\* A call and its return: last holds the call's name, arguments and result,
\* and the cells as they were when it was made.
Open(x, y) ==
    /\ Ready
    /\ LET r == Field_open(cells, numbers, x, y, 1)
       IN  /\ cells' = r.cells
           /\ last' = [op |-> "open", x |-> x, y |-> y, res |-> r.res, pre |-> cells]
    /\ left' = left - 1
    /\ UNCHANGED numbers

Flag(x, y) ==
    /\ Ready
    /\ LET r == Field_flag(cells, x, y)
       IN  /\ cells' = r.cells
           /\ last' = [op |-> "flag", x |-> x, y |-> y, res |-> r.res, pre |-> cells]
    /\ left' = left - 1
    /\ UNCHANGED numbers

Chord(x, y) ==
    /\ Ready
    /\ LET r == Field_chord(cells, numbers, x, y)
       IN  /\ cells' = r.cells
           /\ last' = [op |-> "chord", x |-> x, y |-> y, res |-> r.res, pre |-> cells]
    /\ left' = left - 1
    /\ UNCHANGED numbers

IsWon ==
    /\ Ready
    /\ last' = [op |-> "is_won", x |-> 0, y |-> 0, res |-> BoolRes(is_won(cells)),
                pre |-> cells]
    /\ left' = left - 1
    /\ UNCHANGED <<cells, numbers>>

\* The caller has looked at the result and goes on to its next call.  A call
\* that ran out of stack never returns: the process is gone.
Continue ==
    /\ last # NoCall
    /\ last.res # StackOverflow
    /\ last' = NoCall
    /\ UNCHANGED <<cells, numbers, left>>

\* Arguments: every position of the board.
Next ==
    \/ \E x \in 0..(Width(cells) - 1), y \in 0..(Height(cells) - 1) : Open(x, y)
    \/ \E x \in 0..(Width(cells) - 1), y \in 0..(Height(cells) - 1) : Flag(x, y)
    \/ \E x \in 0..(Width(cells) - 1), y \in 0..(Height(cells) - 1) : Chord(x, y)
    \/ IsWon
    \/ Continue

Spec == Init /\ [][Next]_vars

\* Arguments: every position of the board and every position one past its
\* last column or last row.
EdgeNext ==
    \/ \E x \in 0..Width(cells), y \in 0..Height(cells) : Open(x, y)
    \/ \E x \in 0..Width(cells), y \in 0..Height(cells) : Flag(x, y)
    \/ \E x \in 0..Width(cells), y \in 0..Height(cells) : Chord(x, y)
    \/ IsWon
    \/ Continue

EdgeSpec == Init /\ [][EdgeNext]_vars

LongSpec == LongInit /\ [][Next]_vars

BoardsSpec == BoardsInit /\ [][Next]_vars

\* ------------------------------------------------------------ generation
\* The number of values of a u16: width, height, mines and the two products
\* of generate_cells are u16.
U16 == 65536

\* a * b of two u16 does not fit a u16 (told without computing a * b, which
\* for the largest u16 does not fit the integers of the model checker).
mul_overflows(a, b) == a # 0 /\ b > (U16 - 1) \div a
\* The low 16 bits of a * b, from a = 256 * (a \div 256) + a % 256.
wrapping_mul(a, b) ==
    (256 * (((a \div 256) * b) % 256) + (a % 256) * b) % U16

\* A u16 product that does not fit: in a build with overflow checks the
\* process panics, in a build without them the product wraps around.
OverflowPanic == <<"OverflowPanic">>
\* The sampling loop of generate_cells never ends: every coordinate of the
\* grid is in bombs already (or the grid has none), and mines are left to
\* place.
NeverReturns == <<"NeverReturns">>

\* The coordinates rng.gen_range(0, width), rng.gen_range(0, height) can give.
GenPos(w, h) == (0..(w - 1)) \X (0..(h - 1))

RECURSIVE sample_bombs(_, _, _, _)
\* The sampling loop that pushes the coordinate without asking whether bombs
\* contains it.
sample_bombs_repeating(w, h, bombs, k) ==
    IF k = 0 THEN {bombs}
    ELSE IF k > Cardinality(GenPos(w, h) \ bombs) THEN {}
    ELSE UNION {sample_bombs(w, h, bombs \cup {c}, k - 1) : c \in GenPos(w, h)}

\* The sampling loop: the sets bombs can hold after k more mines are placed,
\* each at a sampled coordinate that bombs does not contain yet.  The empty
\* set of outcomes: the loop cannot end.
sample_bombs(w, h, bombs, k) ==
    IF k = 0 THEN {bombs}
    ELSE IF k > Cardinality(GenPos(w, h) \ bombs) THEN {}
    ELSE UNION {sample_bombs(w, h, bombs \cup {c}, k - 1) :
                    c \in GenPos(w, h) \ bombs}

\* The grid generate_cells collects: width columns of height cells.
collect_cells(w, h, bombs) ==
    [x \in 0..(w - 1) |-> [y \in 0..(h - 1) |->
        IF <<x, y>> \in bombs THEN Cell_mine ELSE Cell_water]]

\* What the sampling and the collecting give.
generate_sampled(w, h, m) ==
    LET sampled == sample_bombs(w, h, {}, m)
    IN  IF sampled = {} THEN {[res |-> NeverReturns]}
        ELSE {[res |-> Ok, cells |-> collect_cells(w, h, b)] : b \in sampled}

\* generate_cells with the two checks in the other order.
generate_cells_small_first(w, h, m, checks) ==
    IF checks /\ (mul_overflows(w, h) \/ mul_overflows(m, 10))
    THEN {[res |-> OverflowPanic]}
    ELSE IF w < 8 /\ h < 8 THEN {[res |-> FieldTooSmall(w, h)]}
    ELSE IF wrapping_mul(w, h) < wrapping_mul(m, 10) THEN {[res |-> TooManyMines]}
    ELSE generate_sampled(w, h, m)

\* generate_cells: the set of its outcomes, one for each way the sampling can
\* go.  checks: the build has overflow checks.
generate_cells(w, h, m, checks) ==
    IF checks /\ (mul_overflows(w, h) \/ mul_overflows(m, 10))
    THEN {[res |-> OverflowPanic]}
    ELSE IF wrapping_mul(w, h) < wrapping_mul(m, 10) THEN {[res |-> TooManyMines]}
    ELSE IF w < 8 /\ h < 8 THEN {[res |-> FieldTooSmall(w, h)]}
    ELSE generate_sampled(w, h, m)

\* The numbers of mines given to the generator, besides WideInputs.
GenMines == {0, 1, 2}

\* Inputs near the ends of u16: a width * height that is exactly 2^16, the
\* largest width and height, a mines * 10 that is just above 2^16 on a board
\* that is large enough and on one that is too small, and the largest mines
\* for which mines * 10 fits.
WideInputs ==
    {<<256, 256, 1>>, <<U16 - 1, U16 - 1, 1>>, <<U16 - 1, U16 - 1, U16 - 1>>,
     <<10, 10, 6554>>, <<7, 7, 6554>>, <<8, 8, 6553>>}

GenInputs ==
    ((0..GenMaxSide) \X (0..GenMaxSide) \X GenMines) \cup WideInputs

\* No cells have been generated: main has not built its Field yet.
GenInit ==
    /\ cells = <<>>
    /\ numbers = <<>>
    /\ last = NoCall
    /\ left = 1

\* A call of generate_cells(rng, width, height, mines): cells holds the grid
\* it returns.  The numbers of the Field are built from the grid afterwards,
\* by with_cells, and are no part of what generate_cells returns.
GenerateCells(w, h, m, checks) ==
    /\ Ready
    /\ \E out \in generate_cells(w, h, m, checks) :
         /\ cells' = IF out.res = Ok THEN out.cells ELSE cells
         /\ last' = [op |-> "generate", width |-> w, height |-> h,
                     mines |-> m, checks |-> checks, res |-> out.res]
    /\ left' = left - 1
    /\ UNCHANGED numbers

GenNext ==
    \E in \in GenInputs : \E checks \in BOOLEAN :
        GenerateCells(in[1], in[2], in[3], checks)

GenSpec == GenInit /\ [][GenNext]_vars

\* ------------------------------------------------------- what is claimed
\* The board in terms of sets of positions, independent of the scans above.
Pos == Positions(cells)
InBounds(x, y) == <<x, y>> \in Pos
Adjacent(p, q) ==
    /\ p # q
    /\ p[1] - q[1] \in {-1, 0, 1}
    /\ p[2] - q[2] \in {-1, 0, 1}
Neighbours(p) == {q \in Pos : Adjacent(p, q)}
MinesAround(p) == Cardinality({q \in Neighbours(p) : cells[q[1]][q[2]].value = Mine})
FlagsAround(cs, p) == Cardinality({q \in Neighbours(p) : cs[q[1]][q[2]].flagged})
OpenedIn(cs) == {p \in Pos : cs[p[1]][p[2]].opened}
FlaggedIn(cs) == {p \in Pos : cs[p[1]][p[2]].flagged}
MinesIn(cs) == {p \in Pos : cs[p[1]][p[2]].value = Mine}

\* A call of op on the in-bounds position it names has returned.
Returned(op) == last.op = op /\ InBounds(last.x, last.y)
Target == <<last.x, last.y>>
PreCell == last.pre[last.x][last.y]

\* The 8-connected region of zero-count cells that contains the set S of
\* zero-count cells, and the cells of that region with their neighbours.
RECURSIVE ZeroRegion(_)
ZeroRegion(S) ==
    LET T == S \cup {p \in Pos : MinesAround(p) = 0 /\ \E q \in S : Adjacent(p, q)}
    IN  IF T = S THEN S ELSE ZeroRegion(T)
WithRing(S) == S \cup {p \in Pos : \E q \in S : Adjacent(p, q)}

\* C1: every call of open on an in-bounds cell terminates (never recurses
\* without end), whatever cells are flagged or opened.
C1_OpenTerminates ==
    Returned("open") => last.res # StackOverflow

\* C2: open on a flagged, concealed cell returns Ok and changes no cell,
\* whatever the cell's number is.
C2_OpenFlaggedChangesNothing ==
    (Returned("open") /\ PreCell.flagged /\ ~PreCell.opened)
        => (last.res = Ok /\ cells = last.pre)

\* The chord is satisfied: the target was opened and as many of its
\* neighbours were flagged as its number says.
ChordSatisfied ==
    /\ Returned("chord")
    /\ PreCell.opened
    /\ FlagsAround(last.pre, Target) = MinesAround(Target)
\* The neighbours the chord is to open: neither flagged nor opened before.
ChordToOpen ==
    {q \in Neighbours(Target) :
        ~last.pre[q[1]][q[2]].flagged /\ ~last.pre[q[1]][q[2]].opened}

\* C3: a satisfied chord none of whose neighbours to open is a mine returns
\* Ok, and afterwards every unflagged neighbour of the target is opened.
C3_ChordOpensNeighbours ==
    (ChordSatisfied /\ ChordToOpen \cap MinesIn(cells) = {})
        => /\ last.res = Ok
           /\ \A q \in Neighbours(Target) :
                 ~cells[q[1]][q[2]].flagged => cells[q[1]][q[2]].opened

\* C4: chord on an in-bounds target returns Ok or MineOpened, never
\* OutOfBounds.
C4_ChordNeverOutOfBounds ==
    Returned("chord") => last.res \in {Ok, MineOpened}

\* C5: a satisfied chord with a mine among the neighbours to open returns
\* MineOpened.
C5_ChordWrongFlagsLose ==
    (ChordSatisfied /\ ChordToOpen \cap MinesIn(cells) # {})
        => last.res = MineOpened

\* The case of C6: open of a concealed zero-count Water cell on a board
\* without flags.
CascadeCase ==
    /\ Returned("open")
    /\ FlaggedIn(last.pre) = {}
    /\ ~PreCell.opened
    /\ PreCell.value = Water
    /\ MinesAround(Target) = 0

\* C6: on a board without flags, open of a concealed zero-count Water cell
\* returns Ok and leaves opened exactly the cells opened before, the zero
\* region of the target and the cells adjacent to that region; no mine is
\* opened by it and nothing else about the cells changes.
C6_CascadeRegionAndRing ==
    CascadeCase =>
        /\ last.res = Ok
        /\ OpenedIn(cells) = OpenedIn(last.pre) \cup WithRing(ZeroRegion({Target}))
        /\ (OpenedIn(cells) \ OpenedIn(last.pre)) \cap MinesIn(cells) = {}
        /\ \A p \in Pos : cells[p[1]][p[2]].flagged = last.pre[p[1]][p[2]].flagged
                       /\ cells[p[1]][p[2]].value = last.pre[p[1]][p[2]].value

\* The cascade went beyond the target's own neighbours, left a cell
\* concealed, and found a cell opened before.
C6_Witness ==
    /\ CascadeCase
    /\ last.res = Ok
    /\ OpenedIn(last.pre) # {}
    /\ WithRing({Target}) # WithRing(ZeroRegion({Target}))
    /\ OpenedIn(cells) # Pos

\* The case of C7: chord on a target that is concealed, or opened with a
\* number of flagged neighbours other than its number.
ChordRefusedCase ==
    /\ Returned("chord")
    /\ \/ ~PreCell.opened
       \/ FlagsAround(last.pre, Target) # MinesAround(Target)

\* C7: such a chord returns Ok and leaves every cell as it was.
C7_ChordRefusedChangesNothing ==
    ChordRefusedCase => (last.res = Ok /\ cells = last.pre)

\* An opened target with a concealed, unflagged neighbour left alone.
C7_Witness ==
    /\ ChordRefusedCase
    /\ PreCell.opened
    /\ ChordToOpen # {}
    /\ last.res = Ok
    /\ cells = last.pre

\* C8: numbers[x][y] is the number of mines among the in-bounds neighbours of
\* (x,y), the cell itself excluded, in every state; and no step changes a
\* cell's value or a number.
NumbersExact ==
    \A p \in Pos : numbers[p[1]][p[2]] = MinesAround(p)
ValuesAndNumbersKept ==
    /\ numbers' = numbers
    /\ DOMAIN cells' = DOMAIN cells
    /\ \A x \in DOMAIN cells :
          /\ DOMAIN cells'[x] = DOMAIN cells[x]
          /\ \A y \in DOMAIN cells[x] : cells'[x][y].value = cells[x][y].value
C8_NumbersCountMines ==
    []NumbersExact /\ [][ValuesAndNumbersKept]_vars

\* A call has changed a board with corner, edge and interior cells whose
\* centre counts more than one mine.
C8_Witness ==
    /\ last # NoCall
    /\ cells # last.pre
    /\ Width(cells) = 3 /\ Height(cells) = 3
    /\ numbers[1][1] > 1
    /\ numbers[0][0] # numbers[1][1]

\* C9: is_won returns true exactly when every Water cell is opened, whatever
\* is flagged and whichever mines are opened.
C9_IsWonIffAllWaterOpened ==
    last.op = "is_won" =>
        last.res = BoolRes(\A p \in Pos :
            cells[p[1]][p[2]].value = Water => cells[p[1]][p[2]].opened)

\* is_won returned true with cells opened and a mine still concealed.
C9_Witness ==
    /\ last.op = "is_won"
    /\ last.res = BoolRes(TRUE)
    /\ OpenedIn(cells) # {}
    /\ MinesIn(cells) \ OpenedIn(cells) # {}

\* The case of C10: open of a concealed, unflagged mine.
OpenMineCase ==
    /\ Returned("open")
    /\ PreCell.value = Mine
    /\ ~PreCell.opened
    /\ ~PreCell.flagged

\* C10: open of a concealed, unflagged mine marks it opened and returns
\* MineOpened; no other cell changes, and the board keeps its shape and
\* numbers.
C10_OpenMine ==
    OpenMineCase =>
        /\ last.res = MineOpened
        /\ cells = [last.pre EXCEPT ![last.x][last.y].opened = TRUE]
        /\ DOMAIN numbers = DOMAIN cells

\* The opened mine counts no mine around it and has concealed neighbours.
C10_Witness ==
    /\ OpenMineCase
    /\ last.res = MineOpened
    /\ MinesAround(Target) = 0
    /\ Neighbours(Target) \ OpenedIn(cells) # {}

\* The case of C11: open, flag or chord called with a position outside the
\* grid.
OutsideCase ==
    /\ last.op \in {"open", "flag", "chord"}
    /\ ~InBounds(last.x, last.y)

\* C11: open, flag and chord called with a position outside the grid return
\* OutOfBounds with the position asked for and leave every cell as it was.
C11_OutsideIsOutOfBounds ==
    OutsideCase =>
        (last.res = OutOfBounds(last.x, last.y) /\ cells = last.pre)

\* Each of the three calls, outside in the row only, on a board that an
\* earlier call has changed.
C11_WitnessOf(op) ==
    /\ OutsideCase
    /\ last.op = op
    /\ last.x < Width(cells)
    /\ last.x # last.y
    /\ last.res = OutOfBounds(last.x, last.y)
    /\ OpenedIn(cells) \cup FlaggedIn(cells) # {}
C11_Witness ==
    C11_WitnessOf("flag")

\* The case of C12: open of a cell that is opened already.
ReopenCase ==
    /\ Returned("open")
    /\ PreCell.opened

\* C12: open of a cell that is opened already, Water or Mine, returns Ok and
\* changes no cell, so a second open of a cell leaves the board the first
\* open of it left.
C12_ReopenChangesNothing ==
    ReopenCase => (last.res = Ok /\ cells = last.pre)

\* The second open of a mine, on a board with a cell still concealed.
C12_Witness ==
    /\ ReopenCase
    /\ PreCell.value = Mine
    /\ last.res = Ok
    /\ cells = last.pre
    /\ OpenedIn(cells) # Pos

\* The case of C13: flag of a concealed cell, the first call of a pair; the
\* second call of the pair is made on the board as it is now.
FlagConcealedCase ==
    /\ Returned("flag")
    /\ ~PreCell.opened
SecondFlag == Field_flag(cells, last.x, last.y)

\* C13: the first flag of a concealed cell flips its flag and returns Ok; a
\* second flag of the same cell returns Ok and gives back exactly the board
\* as it was before the first.
C13_FlagTwiceRestores ==
    FlagConcealedCase =>
        /\ last.res = Ok
        /\ cells[last.x][last.y].flagged = ~PreCell.flagged
        /\ SecondFlag.res = Ok
        /\ SecondFlag.cells = last.pre

\* The first flag took a flag away, on a board with another cell changed.
C13_Witness ==
    /\ FlagConcealedCase
    /\ PreCell.flagged
    /\ ~cells[last.x][last.y].flagged
    /\ SecondFlag.cells = last.pre
    /\ Width(cells) * Height(cells) > 1

\* C14: flag of an in-bounds cell returns Ok, changes no other cell, no
\* opened bit and no value; on a cell that is opened already it changes
\* nothing at all.
C14_FlagChangesOnlyTheFlag ==
    Returned("flag") =>
        /\ last.res = Ok
        /\ \A p \in Pos : p # Target => cells[p[1]][p[2]] = last.pre[p[1]][p[2]]
        /\ cells[last.x][last.y].opened = PreCell.opened
        /\ cells[last.x][last.y].value = PreCell.value
        /\ PreCell.opened => cells = last.pre

\* Flag of an opened cell that has concealed neighbours.
C14_Witness ==
    /\ Returned("flag")
    /\ PreCell.opened
    /\ last.res = Ok
    /\ cells = last.pre
    /\ Neighbours(Target) \ OpenedIn(cells) # {}

OpenedKept ==
    \A x \in DOMAIN cells : \A y \in DOMAIN cells[x] :
        cells[x][y].opened => cells'[x][y] = cells[x][y]
C16_OpenedIsTerminal ==
    [][OpenedKept]_vars

\* A chord that returned an error after cells had been opened before it.
C16_Witness ==
    /\ Returned("chord")
    /\ last.res # Ok
    /\ OpenedIn(last.pre) # {}
    /\ OpenedIn(last.pre) \subseteq OpenedIn(cells)

\* The case of C20: a call of open or chord has opened a mine.
MineOpenedCase ==
    /\ last.op \in {"open", "chord"}
    /\ InBounds(last.x, last.y)
    /\ (MinesIn(cells) \cap OpenedIn(cells)) \ OpenedIn(last.pre) # {}

Generated == last.op = "generate"
GenCells == GenPos(last.width, last.height)
GenMinesIn == {p \in GenCells : cells[p[1]][p[2]].value = Mine}

\* width * height < mines * 10 as integers: width * height <= mines * 10 - 1.
ExactlyTooMany ==
    /\ last.mines > 0
    /\ \/ last.width = 0
       \/ last.height <= (last.mines * 10 - 1) \div last.width

\* C17: generation fails with TooManyMines exactly when width * height is
\* less than mines * 10 as integers; no product overflows into a panic, and
\* an input that passes the check lets the sampling finish.
C17_TooManyMinesExact ==
    Generated =>
        /\ (last.res = TooManyMines) <=>
               ExactlyTooMany
        /\ last.res # OverflowPanic
        /\ last.res # NeverReturns

\* Both sides below 8.
SmallCase ==
    /\ Generated
    /\ last.width < 8
    /\ last.height < 8

\* C18 as stated: with both sides below 8 generation fails with
\* FieldTooSmall(width, height), whatever the number of mines.
C18_SmallIsFieldTooSmall ==
    SmallCase => last.res = FieldTooSmall(last.width, last.height)

\* C18: with both sides below 8 generation gives no board: it fails with
\* TooManyMines when width * height < mines * 10, the check made first, and
\* with FieldTooSmall(width, height) otherwise; where mines * 10 does not fit
\* 16 bits it fails with one of the two or with the overflow panic.
C18_SmallNeverGenerates ==
    SmallCase =>
        /\ last.res \in {TooManyMines, OverflowPanic,
                         FieldTooSmall(last.width, last.height)}
        /\ cells = <<>>
        /\ last.mines * 10 < U16 =>
               last.res = IF ExactlyTooMany
                          THEN TooManyMines
                          ELSE FieldTooSmall(last.width, last.height)

\* A grid with both sides below 8 and mines that are not too many for it.
C18_Witness ==
    /\ SmallCase
    /\ last.mines > 0
    /\ last.width # last.height
    /\ last.res = FieldTooSmall(last.width, last.height)

\* C19: a generation that succeeds gives width columns of height cells, with
\* mines of them mines, the others water, and every cell closed and
\* unflagged.
C19_GeneratedGrid ==
    (Generated /\ last.res = Ok) =>
        /\ DOMAIN cells = 0..(last.width - 1)
        /\ \A x \in DOMAIN cells : DOMAIN cells[x] = 0..(last.height - 1)
        /\ Cardinality(GenMinesIn) = last.mines
        /\ \A p \in GenCells :
              /\ cells[p[1]][p[2]].value \in {Mine, Water}
              /\ ~cells[p[1]][p[2]].opened
              /\ ~cells[p[1]][p[2]].flagged

\* A grid that is not square, generated with two mines in one column.
C19_Witness ==
    /\ Generated
    /\ last.res = Ok
    /\ last.width # last.height
    /\ last.mines = 2
    /\ \E p, q \in GenMinesIn : p[1] = q[1] /\ p[2] # q[2]

====
